---- MODULE Spec2Model ----
(***************************************************************************)
(* A model of the macon telemetry scripts: the 16-bit folds and the phase  *)
(* bit (debug_multiplexer.py, monitor_solar_live.py), the solar decoder    *)
(* (debug_solar.py), the multiplexer debug run (debug_multiplexer.py) and  *)
(* the poll cycle with its pivot table (maconread2db.py).                  *)
(*                                                                         *)
(* Temperatures are kept in hundredths of a degree (the decoder rounds to  *)
(* two decimals), times in milliseconds, a nullable value as a set with at *)
(* most one element ({} is NULL / None).                                   *)
(***************************************************************************)
EXTENDS Integers, Sequences, FiniteSets, TLC

VARIABLES
    \* ---- one register word through the folds and the phase test
    w,          \* the word as the transport delivers it, 0..65535
    wpc,        \* "read" | "resolved" | "folded"
    status,     \* to_s(reg[10]) of the last poll
    phase,      \* "A" | "B" of the last poll ("none" before the first)
    lastPhase,  \* observation: the phase printed by the poll before
    polls,      \* polls done by the monitoring loop
    val_u,      \* to_u(reg[i])
    val_s,      \* to_s(reg[i])
    rtSU,       \* to_s(to_u(w))
    rtUS,       \* to_u(to_s(w))
    \* ---- debug_solar.py
    spc,        \* "start" | "done" | "exit"
    raw_so,     \* to_u(reg[7])
    reg30,      \* reg[30] as delivered
    temp_so,    \* calc_so(raw_so), hundredths
    inRange,    \* the printed "Im Bereich?" answer
    sdiag,      \* the DIAGNOSE branch taken
    \* ---- debug_multiplexer.py
    mpc,        \* "loop" | "diagnose" | "closed"
    mi,         \* the loop index i
    mraw,       \* raw_so of the last read
    mstatus,    \* reg[10] of the last read, as delivered
    mphase,     \* phase of the last read
    mprev,      \* observation: phase of the read before
    mslept,     \* time slept since the last answered read (ms)
    mgap,       \* observation: time slept between the last two answered reads
    mfirst,     \* observation: no read has succeeded yet
    mtrust,     \* the last sample was reported good (check mark / "OK")
    mdiag,      \* the DIAGNOSE branch taken
    settle,     \* the hardware's settle time (ms), unknown to the code
    \* ---- maconread2db.py: the shared store
    tableExists, \* macon_pivot exists
    columns,    \* its columns, a set of <<name, definition>>
    rows,       \* its committed rows, oldest first; a row maps column -> value
    nextId,     \* the AUTO_INCREMENT counter
    image,      \* what the heat pump's registers hold during the run
    active,     \* the pollers that run
    cycles,     \* poll cycles started so far
    faults,     \* failures the environment has produced so far
    \* ---- maconread2db.py: each poller process
    pc,         \* where the poller is in main()
    results,    \* results: register -> word read
    bit_expanded, \* bit_expanded: column -> 0 / 1
    volumeflow, \* fetch_volumeflow's answer
    timestamp,  \* the cycle's timestamp
    existing,   \* ensure_pivot_columns' list of existing column names
    kcol,       \* ensure_pivot_columns' next ALTER: its place in the known columns
    pending,    \* the row inserted and not yet committed
    dbOpen,     \* the poller holds an open database connection
    clientOpen, \* the poller holds the Modbus client open
    obs,        \* observation: what the cycle has done so far
    \* ---- the bit decoders of write_freq.py and maconread2db.py on one word
    bpc,        \* "input" | "fields" | "bits" | "flags"
    bvalue,     \* the 16-bit value decoded
    baddress,   \* the register address it was read from
    bfields,    \* write_freq.decode_bits(value, reg): bit -> value and desc
    bbits,      \* maconread2db.decode_bits(value): bit -> value
    bflags,     \* the bit_expanded entries of that register: column -> value
    \* ---- write_freq.py: one run
    fpc,        \* where the run is: the next bus operation, "closed" or "exit"
    success,    \* success
    status_val, \* status_val: {} for None, {v} for a value
    pump_on,    \* pump_on: {} while unbound, {0} or {1}
    error_val,  \* error_val: {} for None, {v} for a value
    written_registers, \* written_registers
    wclient,    \* "new" | "open" | "closed"
    fslept,     \* milliseconds slept since the last bus operation
    ops,        \* observation: the bus operations issued, in order
    verified,   \* observation: the registers logged as verified, with the value read
    summary,    \* observation: the word of the Summary line, "none" without one
    unexpected  \* observation: the run logged "Unexpected error"

wordVars == <<w, wpc, status, phase, lastPhase, polls, val_u, val_s, rtSU, rtUS>>
solarVars == <<spc, raw_so, reg30, temp_so, inRange, sdiag>>
muxVars == <<mpc, mi, mraw, mstatus, mphase, mprev, mslept, mgap, mfirst, mtrust, mdiag, settle>>
storeVars == <<tableExists, columns, rows, nextId, image, active, cycles, faults>>
pollerVars == <<pc, results, bit_expanded, volumeflow, timestamp, existing, kcol, pending,
                dbOpen, clientOpen, obs>>
pollVars == <<storeVars, pollerVars>>
bitVars == <<bpc, bvalue, baddress, bfields, bbits, bflags>>
writeVars == <<fpc, success, status_val, pump_on, error_val, written_registers, wclient,
               fslept, ops, verified, summary, unexpected>>
toolVars == <<bitVars, writeVars>>
vars == <<wordVars, solarVars, muxVars, pollVars, toolVars>>

(***************************************************************************)
(* Bounds and input sets                                                   *)
(***************************************************************************)
MaxPolls == 2

\* Poll cycles started in one run, over all pollers.
MaxCycles == 2

\* Failures (of a connect, a read, a statement) in one run of one poller.
MaxFaults == 1

\* Failures in one run of two pollers, beyond the ALTERs the store refuses
\* as duplicates, which are not counted.
MaxSharedFaults == 0

\* The independent poller processes sharing the table.
Pollers == {"p1", "p2"}

\* Two pollers are run against a table that earlier cycles left with at
\* most this many known columns still to add; one poller is run from the
\* empty store.
MaxMissing == 2

\* What the registers may hold: one image, with words of 0 among the others.
Images == {"mixed"}

\* What wagodb.mbus2 may hold as its newest Volumeflow.
VolumeflowSamples == {12}

Word16 == 0..65535

\* Status words the bus may show on a later poll: both phases, both signs.
StatusSamples == {0, 16, 15, 17, 32767, 32768, 32784, 65519, 65535}

\* Raw values around every threshold of the solar range checks.
RawSamples == {0, 1, 3999, 4000, 4001, 26402, 39999, 40000, 40001, 65535}

\* Raw values of the two other sensors the diagnosis looks at.
OtherSamples == {0, 5000}

\* reg[30], the PLC's own solar temperature times 100.
Reg30Samples == {0, 2500}

\* Settle times the hardware may have (ms): the loop's pause is meant to
\* outlast one multiplexer cycle, so every sample is below it.
SettleSamples == {0, 100, 500}

None == "none"

(***************************************************************************)
(* Pure helpers                                                            *)
(***************************************************************************)
to_u(v) == IF v >= 0 THEN v ELSE v + 65536

\* to_s with the sign boundary one word too high.
to_s_boundary(v) == IF v <= 32768 THEN v ELSE v - 65536

to_s(v) == IF v < 32768 THEN v ELSE v - 65536

\* Python's a & b for b >= 0: a's infinite two's-complement bits under b's.
RECURSIVE BitAnd(_, _)
BitAnd(a, b) ==
    IF b = 0 THEN 0
    ELSE (a % 2) * (b % 2) + 2 * BitAnd(a \div 2, b \div 2)

\* The phase read off bit 3 (mask 0x08) instead of bit 4.
PhaseOfBit3(word) == IF BitAnd(to_s(word), 8) # 0 THEN "A" ELSE "B"

\* status = to_s(reg[10]); 'A' if (status & 0x10) else 'B'
PhaseOf(word) == IF BitAnd(to_s(word), 16) # 0 THEN "A" ELSE "B"

\* round(x / 60, 2) in hundredths: the nearest integer to 100 * x / 60.
Round2Div60(x) == (10 * x + 3) \div 6

calc_so(r) == IF 4000 < r /\ r < 40000 THEN Round2Div60(r - 26402) ELSE 0

(***************************************************************************)
(* Initial state                                                           *)
(***************************************************************************)
WordInit ==
    /\ w \in Word16
    /\ wpc = "read"
    /\ status = 0
    /\ phase = None
    /\ lastPhase = None
    /\ polls = 0
    /\ val_u = 0 /\ val_s = 0 /\ rtSU = 0 /\ rtUS = 0

WordIdle ==
    /\ w = 0
    /\ wpc = "read"
    /\ status = 0
    /\ phase = None
    /\ lastPhase = None
    /\ polls = 0
    /\ val_u = 0 /\ val_s = 0 /\ rtSU = 0 /\ rtUS = 0

SolarInit ==
    /\ spc = "start"
    /\ raw_so = 0
    /\ reg30 = 0
    /\ temp_so = 0
    /\ inRange = FALSE
    /\ sdiag = None

MuxInit ==
    /\ mpc = "loop"
    /\ mi = 0
    /\ mraw = 0
    /\ mstatus = 0
    /\ mphase = None
    /\ mprev = None
    /\ mslept = 0
    /\ mgap = 0
    /\ mfirst = TRUE
    /\ mtrust = FALSE
    /\ mdiag = None
    /\ settle = 0

MuxInitAny ==
    /\ mpc = "loop"
    /\ mi = 0
    /\ mraw = 0
    /\ mstatus = 0
    /\ mphase = None
    /\ mprev = None
    /\ mslept = 0
    /\ mgap = 0
    /\ mfirst = TRUE
    /\ mtrust = FALSE
    /\ mdiag = None
    /\ settle \in SettleSamples

(***************************************************************************)
(* monitor_solar_live.py: one pass of the monitoring loop                  *)
(***************************************************************************)
\* The status words a poll may be answered with: every word on the first
\* poll, the sample words on the polls after it.
StatusInputs(n) == IF n = 0 THEN Word16 ELSE StatusSamples

\* A poll whose read answers: status and phase are taken from this word only.
MonitorPoll ==
    /\ wpc = "read"
    /\ polls < MaxPolls
    /\ \E r10 \in StatusInputs(polls) :
        /\ w' = r10
        /\ status' = to_s(r10)
        /\ phase' = PhaseOf(r10)
    /\ lastPhase' = phase
    /\ polls' = polls + 1
    /\ wpc' = "resolved"
    /\ UNCHANGED <<val_u, val_s, rtSU, rtUS>>

\* A poll whose read fails: "Modbus Fehler", sleep, continue.
MonitorError ==
    /\ wpc = "read"
    /\ polls < MaxPolls
    /\ polls' = polls + 1
    /\ UNCHANGED <<w, wpc, status, phase, lastPhase, val_u, val_s, rtSU, rtUS>>

\* time.sleep(0.2), then the next pass.
MonitorSleep ==
    /\ wpc = "resolved"
    /\ wpc' = "read"
    /\ UNCHANGED <<w, status, phase, lastPhase, polls, val_u, val_s, rtSU, rtUS>>

\* test_solar_fix.py's register listing: both views of one word, and the
\* two round trips through the folds.
Views ==
    /\ wpc = "read"
    /\ val_u' = to_u(w)
    /\ val_s' = to_s(w)
    /\ rtSU' = to_s(to_u(w))
    /\ rtUS' = to_u(to_s(w))
    /\ wpc' = "folded"
    /\ UNCHANGED <<w, status, phase, lastPhase, polls>>

(***************************************************************************)
(* debug_solar.py: one run                                                 *)
(***************************************************************************)
\* The DIAGNOSE chain of debug_solar.py, in its order.
SolarDiagnosis(raw, temp, plc) ==
    IF raw < 4000 THEN "low"
    ELSE IF raw > 40000 THEN "high"
    ELSE IF raw = 0 \/ raw = 65535 THEN "invalid"
    ELSE IF temp - plc > 100 \/ plc - temp > 100 THEN "ok_differs"
    ELSE "ok"

\* The read answers: decode, print the range answer, diagnose.
DebugSolar ==
    /\ spc = "start"
    /\ \E r7 \in Word16, r30 \in Reg30Samples :
        /\ raw_so' = to_u(r7)
        /\ reg30' = r30
        /\ temp_so' = calc_so(to_u(r7))
        /\ inRange' = (4000 <= to_u(r7) /\ to_u(r7) <= 40000)
        /\ sdiag' = SolarDiagnosis(to_u(r7), calc_so(to_u(r7)), to_u(r30))
    /\ spc' = "done"

\* The read fails: "Modbus Fehler", exit(1).
DebugSolarError ==
    /\ spc = "start"
    /\ spc' = "exit"
    /\ UNCHANGED <<raw_so, reg30, temp_so, inRange, sdiag>>

(***************************************************************************)
(* debug_multiplexer.py: three timed reads, then the diagnosis read        *)
(***************************************************************************)
MuxSleepMs == 600

\* The check mark printed beside SO (Solar) in the loop.
SolarMark(raw) == 4000 <= raw /\ raw <= 40000

\* The chain with the range tests ahead of the test for zero.
MuxDiagnosisRangeFirst(raw, vl, ww) ==
    IF raw < 4000 THEN "low"
    ELSE IF raw > 40000 THEN "high"
    ELSE IF raw = 0 THEN (IF vl > 0 /\ ww > 0 THEN "zero_sensor" ELSE "zero_multiplexer")
    ELSE IF Round2Div60(raw - 26402) < -1000 \/ Round2Div60(raw - 26402) > 10000
         THEN "ok_implausible"
    ELSE "ok"

\* The DIAGNOSE chain of debug_multiplexer.py, in its order.
MuxDiagnosis(raw, vl, ww) ==
    IF raw = 0 THEN (IF vl > 0 /\ ww > 0 THEN "zero_sensor" ELSE "zero_multiplexer")
    ELSE IF raw < 4000 THEN "low"
    ELSE IF raw > 40000 THEN "high"
    ELSE IF Round2Div60(raw - 26402) < -1000 \/ Round2Div60(raw - 26402) > 10000
         THEN "ok_implausible"
    ELSE "ok"

\* The time.sleep after pass i of the loop.
SleepAfter(i) == IF i < 2 THEN MuxSleepMs ELSE 0

\* Pass i of the loop, the read answering.
MuxMeasure ==
    /\ mpc = "loop"
    /\ mi < 3
    /\ \E r7 \in RawSamples, r10 \in StatusSamples :
        /\ mraw' = to_u(r7)
        /\ mstatus' = r10
        /\ mphase' = PhaseOf(r10)
        /\ mtrust' = SolarMark(to_u(r7))
    /\ mprev' = mphase
    /\ mfirst' = FALSE
    /\ mgap' = mslept
    /\ mslept' = SleepAfter(mi)
    /\ mi' = mi + 1
    /\ UNCHANGED <<mpc, mdiag, settle>>

\* Pass i of the loop, the read failing: continue, which skips the sleep.
MuxMeasureError ==
    /\ mpc = "loop"
    /\ mi < 3
    /\ mi' = mi + 1
    /\ mtrust' = FALSE
    /\ UNCHANGED <<mpc, mraw, mstatus, mphase, mprev, mslept, mgap, mfirst, mdiag, settle>>

\* The loop is over.
MuxLoopEnd ==
    /\ mpc = "loop"
    /\ mi = 3
    /\ mpc' = "diagnose"
    /\ UNCHANGED <<mi, mraw, mstatus, mphase, mprev, mslept, mgap, mfirst, mtrust, mdiag, settle>>

\* The diagnosis read, taken right after the loop, and the DIAGNOSE chain.
MuxDiagnose ==
    /\ mpc = "diagnose"
    /\ \E r7 \in RawSamples, r10 \in StatusSamples, r0 \in OtherSamples, r4 \in OtherSamples :
        /\ mraw' = to_u(r7)
        /\ mstatus' = r10
        /\ mphase' = PhaseOf(r10)
        /\ mdiag' = MuxDiagnosis(to_u(r7), to_u(r0), to_u(r4))
        /\ mtrust' = (MuxDiagnosis(to_u(r7), to_u(r0), to_u(r4)) \in {"ok", "ok_implausible"})
    /\ mprev' = mphase
    /\ mfirst' = FALSE
    /\ mgap' = mslept
    /\ mpc' = "closed"
    /\ UNCHANGED <<mi, mslept, settle>>

\* The diagnosis read failing: result.registers raises, finally closes.
MuxDiagnoseError ==
    /\ mpc = "diagnose"
    /\ mpc' = "closed"
    /\ mtrust' = FALSE
    /\ UNCHANGED <<mi, mraw, mstatus, mphase, mprev, mslept, mgap, mfirst, mdiag, settle>>


(***************************************************************************)
(* maconread2db.py: the register catalog                                   *)
(***************************************************************************)
DISABLE_DB == FALSE

REGISTER_MAP == <<
    [reg |-> 2004, name |-> "Hot_water_temperature", unit |-> "degC"],
    [reg |-> 2007, name |-> "Hot_water_tank_delta_T", unit |-> "degC"],
    [reg |-> 2047, name |-> "Frequency_reduction", unit |-> None],
    [reg |-> 2052, name |-> "Water_pump_mode", unit |-> None],
    [reg |-> 2056, name |-> "Accept_host_frequency_control", unit |-> None],
    [reg |-> 2057, name |-> "Host_unit_compressor_frequency", unit |-> "Hz"],
    [reg |-> 2100, name |-> "Water_tank_temperature", unit |-> "degC"],
    [reg |-> 2102, name |-> "Outlet_water_temperature", unit |-> "degC"],
    [reg |-> 2103, name |-> "Inlet_water_temperature", unit |-> "degC"],
    [reg |-> 2104, name |-> "Discharge_temperature", unit |-> "degC"],
    [reg |-> 2105, name |-> "Suction_temperature", unit |-> "degC"],
    [reg |-> 2107, name |-> "External_coil_temperature", unit |-> "degC"],
    [reg |-> 2108, name |-> "Cooling_coil_temperature", unit |-> "degC"],
    [reg |-> 2110, name |-> "Outdoor_ambient_temperature", unit |-> "degC"],
    [reg |-> 2114, name |-> "IPM_temperature", unit |-> "degC"],
    [reg |-> 2115, name |-> "Brine_inlet_temp", unit |-> "degC"],
    [reg |-> 2116, name |-> "Brine_outlet_temp", unit |-> "degC"],
    [reg |-> 2118, name |-> "Compressor_frequency", unit |-> "Hz"],
    [reg |-> 2120, name |-> "AC_voltage", unit |-> "V"],
    [reg |-> 2121, name |-> "AC_current", unit |-> "A"],
    [reg |-> 2122, name |-> "DC_voltage", unit |-> "V"],
    [reg |-> 2124, name |-> "Primary_EEV_opening", unit |-> "%"],
    [reg |-> 2125, name |-> "Secondary_EEV_opening", unit |-> "%"],
    [reg |-> 2133, name |-> "System_status_1", unit |-> "bits"],
    [reg |-> 2134, name |-> "Error_code_1", unit |-> "bits"],
    [reg |-> 2135, name |-> "System_status_2", unit |-> "bits"],
    [reg |-> 2136, name |-> "System_status_3", unit |-> "bits"],
    [reg |-> 2137, name |-> "Error_code_2", unit |-> "bits"],
    [reg |-> 2138, name |-> "Error_code_3", unit |-> "bits"] >>

BIT_MAP == <<
    [reg |-> 2135, bits |-> <<
        <<1, "Compressor_status">>, <<5, "Water_pump">>, <<6, "4way_valve">>,
        <<7, "Electric_heater">>, <<8, "Water_flow_switch">>,
        <<9, "High_pressure_switch">>, <<10, "Low_pressure_switch">>,
        <<13, "3way_valve1">>, <<14, "3way_valve2">> >>],
    [reg |-> 2136, bits |-> <<
        <<5, "Defrost">>, <<8, "Wired_controller">>, <<9, "Energy_saving">>,
        <<10, "Primary_antifreeze">>, <<11, "Secondary_antifreeze">>,
        <<12, "Sterilizing">>, <<13, "Secondary_pump">> >>],
    [reg |-> 2137, bits |-> <<
        <<5, "External_coil_temp_error">>, <<6, "Discharge_temp_error">>,
        <<7, "Suction_temp_error">>, <<8, "Ambient_temp_error">>,
        <<9, "Comm_drive_error">>, <<10, "Comm_controller_error">> >>],
    [reg |-> 2138, bits |-> <<
        <<5, "High_discharge_protect">>, <<6, "High_pressure_protect">>,
        <<7, "Low_pressure_protect">>, <<8, "Water_flow_protect">>,
        <<10, "Low_ambient_protect">>, <<14, "Low_outlet_temp_protect">> >>] >>

\* The registers main() reads one by one, in its order.
RW_REGS == <<2004, 2007, 2047, 2052, 2056, 2057>>

\* read_block(2100, 39)
RO_START == 2100

RO_COUNT == 39

Range(f) == {f[i] : i \in DOMAIN f}

\* The entries of REGISTER_MAP and of BIT_MAP.
RegEntries == Range(REGISTER_MAP)

BitEntries == Range(BIT_MAP)

\* reg in REGISTER_MAP
RegKeys == {e.reg : e \in RegEntries}

\* REGISTER_MAP[reg]
RegEntry(reg) == CHOOSE e \in RegEntries : e.reg = reg

\* reg in BIT_MAP
BitKeys == {e.reg : e \in BitEntries}

\* BIT_MAP[reg].items()
BitsOf(reg) == (CHOOSE e \in BitEntries : e.reg = reg).bits

\* f"Bit{bit}_{label}"
BitCol(bit, label) == "Bit" \o ToString(bit) \o "_" \o label

\* decode_bits(value): bit i of a 16-bit value, for i in range(16)
decode_bits(value) == [i \in 0..15 |-> (value \div (2 ^ i)) % 2]

\* The column definitions the statements give.
IdDef == "INT AUTO_INCREMENT PRIMARY KEY"

TimestampDef == "DATETIME NOT NULL"

FloatDef == "FLOAT NULL"

BitDef == "TINYINT(1) DEFAULT 0"

\* Every column defaulting to NULL.
DefaultOfNull(def) == {}

\* What a column holds in a row whose INSERT does not name it.
DefaultOf(def) == IF def = BitDef THEN {0} ELSE {}

\* The columns ensure_pivot_columns knows, in the order it walks them.
RegisterColumns == [i \in DOMAIN REGISTER_MAP |-> <<REGISTER_MAP[i].name, FloatDef>>]

BitColumnsOf(e) == [j \in DOMAIN e.bits |-> <<BitCol(e.bits[j][1], e.bits[j][2]), BitDef>>]

RECURSIVE BitColumnsFrom(_)
BitColumnsFrom(i) ==
    IF i > Len(BIT_MAP) THEN << >>
    ELSE BitColumnsOf(BIT_MAP[i]) \o BitColumnsFrom(i + 1)

KnownColumns == RegisterColumns \o BitColumnsFrom(1) \o << <<"Volumeflow", FloatDef>> >>

KnownNames == {c[1] : c \in Range(KnownColumns)}

\* What register reg holds under a device image: 0 at every fourth address,
\* elsewhere a word that varies with the address.
DeviceWord(img, reg) ==
    IF reg % 4 = 0 THEN 0 ELSE (reg * 2731) % 65536


(***************************************************************************)
(* maconread2db.py: helpers                                                *)
(***************************************************************************)
\* read_register letting the failure out as an exception.
read_register_raising(address, failing) ==
    [val |-> IF address \in failing THEN {} ELSE {DeviceWord(image, address)},
     raised |-> address \in failing]

\* read_register(address): the word, or None on an error answer and on a
\* ModbusException alike; it never raises.
read_register(address, failing) ==
    [val |-> IF address \in failing THEN {} ELSE {DeviceWord(image, address)},
     raised |-> FALSE]

\* read_block letting the failure out as an exception.
read_block_raising(start, count, fails) ==
    [data |-> IF fails THEN << >> ELSE [i \in 1..count |-> DeviceWord(image, start + i - 1)],
     raised |-> fails]

\* read_block(start, count): the words, or None (here the empty list).
read_block(start, count, fails) ==
    [data |-> IF fails THEN << >> ELSE [i \in 1..count |-> DeviceWord(image, start + i - 1)],
     raised |-> FALSE]

\* for reg in [2004, ...]: val = read_register(reg); keep it unless None.
RECURSIVE RwLoop(_, _, _)
RwLoop(i, failing, acc) ==
    IF i > Len(RW_REGS) \/ acc.raised THEN acc
    ELSE LET reg == RW_REGS[i]
             r == read_register(reg, failing)
         IN RwLoop(i + 1, failing,
                [results |-> IF r.val # {} /\ reg \in RegKeys
                             THEN acc.results @@ (reg :> (CHOOSE v \in r.val : TRUE))
                             ELSE acc.results,
                 tried |-> acc.tried \cup {reg},
                 raised |-> r.raised])

\* The registers of the block that the catalog names.
RoRegs(ro_data) == {r \in RegKeys : RO_START <= r /\ r <= RO_START + Len(ro_data) - 1}

\* results[reg] = (desc, val, unit) for the block's registers.
RoResults(ro_data) == [reg \in RoRegs(ro_data) |-> ro_data[reg - RO_START + 1]]

\* bits = decode_bits(val); bit_expanded[f"Bit{bit}_{label}"] = bits.get(bit, 0)
\* for the declared bits of one register.
ExpandBits(reg, val) ==
    LET bits == decode_bits(val)
    IN { <<BitCol(b[1], b[2]), IF b[1] \in DOMAIN bits THEN bits[b[1]] ELSE 0>> :
         b \in Range(BitsOf(reg)) }

\* The (column, bit value) pairs the bit expansion writes.
RoBitPairs(ro_data) ==
    UNION { ExpandBits(reg, ro_data[reg - RO_START + 1]) :
            reg \in {r \in RoRegs(ro_data) \cap BitKeys : RegEntry(r).unit = "bits"} }

\* bit_expanded after the block loop.
RoBitExpanded(ro_data) ==
    LET pairs == RoBitPairs(ro_data)
    IN [c \in {q[1] : q \in pairs} |-> (CHOOSE q \in pairs : q[1] = c)[2]]

\* fetch_volumeflow: the newest Volumeflow, None without a row or on any error.
fetch_volumeflow(answer) == IF answer = "row" THEN VolumeflowSamples ELSE {}

ColumnNames(cols) == {c[1] : c \in cols}

\* The test that never consults the list of existing columns.
MissingUnchecked(name, have) == TRUE

\* if name not in existing
Missing(name, have) == name \notin have

\* ensure_pivot_columns' next ALTER: the first known column from place k on
\* that the list of existing names lacks; 0 when there is none.
RECURSIVE NextMissing(_, _)
NextMissing(have, k) ==
    IF k > Len(KnownColumns) THEN 0
    ELSE IF Missing(KnownColumns[k][1], have) THEN k
    ELSE NextMissing(have, k + 1)

\* A CREATE that replaces an existing table.
ensure_pivot_table_replacing(exists, cols) ==
    {<<"id", IdDef>>, <<"timestamp", TimestampDef>>}

\* CREATE TABLE IF NOT EXISTS: the columns after the statement.
ensure_pivot_table(exists, cols) ==
    IF exists THEN cols ELSE {<<"id", IdDef>>, <<"timestamp", TimestampDef>>}

\* An ADD COLUMN that leaves the table as it was.
AddColumnIgnored(cols, col) == cols

\* ALTER TABLE ... ADD COLUMN: the columns after the statement.
AddColumn(cols, col) == cols \cup {col}

\* The row an added column leaves: every row gets the column's default.
ExtendRow(row, col) == row @@ (col[1] :> DefaultOf(col[2]))

\* insert_pivot_row's column list, in the order it is built.
InsertCols(res, bits) ==
    << "timestamp" >>
    \o [i \in DOMAIN SelectSeq(REGISTER_MAP, LAMBDA e : e.reg \in DOMAIN res) |->
            SelectSeq(REGISTER_MAP, LAMBDA e : e.reg \in DOMAIN res)[i].name]
    \o [i \in DOMAIN SelectSeq(KnownColumns, LAMBDA c : c[1] \in DOMAIN bits) |->
            SelectSeq(KnownColumns, LAMBDA c : c[1] \in DOMAIN bits)[i][1]]
    \o << "Volumeflow" >>

\* The value insert_pivot_row gives column c.
InsertVal(c, ts, res, bits, vf) ==
    IF c = "timestamp" THEN {ts}
    ELSE IF c = "Volumeflow" THEN vf
    ELSE IF c \in DOMAIN bits THEN {bits[c]}
    ELSE {res[e.reg] : e \in {x \in RegEntries : x.name = c /\ x.reg \in DOMAIN res}}

\* The store accepts the INSERT: the table exists, no column is named twice
\* and every named column exists.
InsertAccepted(cols) ==
    /\ tableExists
    /\ Cardinality(Range(cols)) = Len(cols)
    /\ Range(cols) \subseteq ColumnNames(columns)

\* The row the store keeps: named columns as given, the others by default.
InsertedRow(id, cols, ts, res, bits, vf) ==
    LET named == Range(cols)
    IN [c \in ColumnNames(columns) |->
            IF c = "id" THEN {id}
            ELSE IF c \in named THEN InsertVal(c, ts, res, bits, vf)
            ELSE DefaultOf((CHOOSE d \in columns : d[1] = c)[2])]

FreshObs ==
    [connected |-> FALSE, connects |-> 0, tried |-> {}, failed |-> {},
     blockTried |-> FALSE, dbTried |-> FALSE, vfFailed |-> FALSE,
     shown |-> FALSE, fullSnapshot |-> FALSE, alters |-> 0,
     inserted |-> {}, committed |-> FALSE, stage |-> "idle"]

NoMap == << >>

\* The failures a run may still see.
FaultBudget == IF Cardinality(active) > 1 THEN MaxSharedFaults ELSE MaxFaults

\* The pollers at rest.
PollersIdle ==
    /\ pc = [p \in Pollers |-> "idle"]
    /\ results = [p \in Pollers |-> NoMap]
    /\ bit_expanded = [p \in Pollers |-> NoMap]
    /\ volumeflow = [p \in Pollers |-> {}]
    /\ timestamp = [p \in Pollers |-> 0]
    /\ existing = [p \in Pollers |-> {}]
    /\ kcol = [p \in Pollers |-> 0]
    /\ pending = [p \in Pollers |-> << >>]
    /\ dbOpen = [p \in Pollers |-> FALSE]
    /\ clientOpen = [p \in Pollers |-> FALSE]
    /\ obs = [p \in Pollers |-> FreshObs]

\* The store before the first cycle ever: no table.
EmptyStore ==
    /\ tableExists = FALSE
    /\ columns = {}
    /\ rows = << >>
    /\ nextId = 1

\* The store as a cycle that aborted in ensure_pivot_columns leaves it: the
\* table with the first n known columns, no row.
PartialStore(n) ==
    /\ tableExists = TRUE
    /\ columns = ensure_pivot_table(FALSE, {}) \cup {KnownColumns[i] : i \in 1..n}
    /\ rows = << >>
    /\ nextId = 1

PollIdle ==
    /\ EmptyStore
    /\ image = "mixed"
    /\ active = {}
    /\ cycles = 0
    /\ faults = 0
    /\ PollersIdle

PollInit ==
    /\ \/ EmptyStore /\ active = {"p1"}
       \/ /\ \E m \in 0..MaxMissing : PartialStore(Len(KnownColumns) - m)
          /\ active = Pollers
    /\ image \in Images
    /\ cycles = 0
    /\ faults = 0
    /\ PollersIdle

(***************************************************************************)
(* maconread2db.py: main(), one action per step                            *)
(***************************************************************************)
\* main() is over and the process ends after it: its locals are gone.
Return(p) ==
    /\ pc' = [pc EXCEPT ![p] = "done"]
    /\ clientOpen' = [clientOpen EXCEPT ![p] = FALSE]
    /\ results' = [results EXCEPT ![p] = NoMap]
    /\ bit_expanded' = [bit_expanded EXCEPT ![p] = NoMap]
    /\ volumeflow' = [volumeflow EXCEPT ![p] = {}]
    /\ timestamp' = [timestamp EXCEPT ![p] = 0]
    /\ existing' = [existing EXCEPT ![p] = {}]
    /\ kcol' = [kcol EXCEPT ![p] = 0]

\* except Exception: print; finally: client.close(). conn.close() is not
\* called on this path: the connection stays open until the process ends,
\* and the store then rolls back a row inserted and not committed.
Abort(p, stage) ==
    /\ Return(p)
    /\ pending' = [pending EXCEPT ![p] = << >>]
    /\ obs' = [obs EXCEPT ![p].stage = stage]

\* client.connect() succeeds; timestamp, results and bit_expanded are set up.
Connect(p) ==
    /\ p \in active
    /\ pc[p] \in {"idle", "done"}
    /\ cycles < MaxCycles
    /\ cycles' = cycles + 1
    /\ pc' = [pc EXCEPT ![p] = "reading"]
    /\ clientOpen' = [clientOpen EXCEPT ![p] = TRUE]
    /\ dbOpen' = [dbOpen EXCEPT ![p] = FALSE]
    /\ timestamp' = [timestamp EXCEPT ![p] = cycles + 1]
    /\ results' = [results EXCEPT ![p] = NoMap]
    /\ bit_expanded' = [bit_expanded EXCEPT ![p] = NoMap]
    /\ obs' = [obs EXCEPT ![p] = [FreshObs EXCEPT !.connected = TRUE, !.connects = 1,
                                                 !.stage = "running"]]
    /\ UNCHANGED <<tableExists, columns, rows, nextId, image, active, faults>>
    /\ UNCHANGED <<volumeflow, existing, kcol, pending>>

\* client.connect() fails: "Modbus failed", return.
ConnectFails(p) ==
    /\ p \in active
    /\ pc[p] \in {"idle", "done"}
    /\ cycles < MaxCycles
    /\ faults < FaultBudget
    /\ cycles' = cycles + 1
    /\ faults' = faults + 1
    /\ pc' = [pc EXCEPT ![p] = "done"]
    /\ dbOpen' = [dbOpen EXCEPT ![p] = FALSE]
    /\ obs' = [obs EXCEPT ![p] = [FreshObs EXCEPT !.connects = 1, !.stage = "connect_failed"]]
    /\ UNCHANGED <<tableExists, columns, rows, nextId, image, active>>
    /\ UNCHANGED <<results, bit_expanded, volumeflow, timestamp, existing, kcol, pending,
                   clientOpen>>

\* The loop over the six registers read one by one.
ReadRW(p) ==
    /\ pc[p] = "reading"
    /\ \E failing \in SUBSET Range(RW_REGS) :
        /\ Cardinality(failing) <= FaultBudget - faults
        /\ LET acc == RwLoop(1, failing, [results |-> NoMap, tried |-> {}, raised |-> FALSE])
           IN /\ faults' = faults + Cardinality(failing)
              /\ IF acc.raised
                 THEN /\ Return(p)
                      /\ obs' = [obs EXCEPT ![p].tried = acc.tried,
                                            ![p].failed = failing \cap acc.tried,
                                            ![p].stage = "read_raised"]
                 ELSE /\ pc' = [pc EXCEPT ![p] = "rw_done"]
                      /\ results' = [results EXCEPT ![p] = acc.results]
                      /\ obs' = [obs EXCEPT ![p].tried = acc.tried,
                                            ![p].failed = failing \cap acc.tried]
                      /\ UNCHANGED <<bit_expanded, volumeflow, timestamp, existing, kcol,
                                     clientOpen>>
    /\ UNCHANGED <<tableExists, columns, rows, nextId, image, active, cycles>>
    /\ UNCHANGED <<pending, dbOpen>>

\* ro_data = read_block(2100, 39) and the loop over it.
ReadRO(p) ==
    /\ pc[p] = "rw_done"
    /\ \E fails \in BOOLEAN :
        /\ fails => faults < FaultBudget
        /\ LET blk == read_block(RO_START, RO_COUNT, fails)
               ro_data == blk.data
           IN /\ faults' = faults + (IF fails THEN 1 ELSE 0)
              /\ IF blk.raised
                 THEN /\ Return(p)
                      /\ obs' = [obs EXCEPT ![p].blockTried = TRUE,
                                            ![p].failed = @ \cup {RO_START},
                                            ![p].stage = "read_raised"]
                 ELSE /\ pc' = [pc EXCEPT ![p] = "ro_done"]
                      /\ UNCHANGED <<volumeflow, timestamp, existing, kcol, clientOpen>>
                      /\ results' = [results EXCEPT ![p] =
                            IF Len(ro_data) > 0 THEN RoResults(ro_data) @@ @ ELSE @]
                      /\ bit_expanded' = [bit_expanded EXCEPT ![p] =
                            IF Len(ro_data) > 0 THEN RoBitExpanded(ro_data) @@ @ ELSE @]
                      /\ obs' = [obs EXCEPT ![p].blockTried = TRUE,
                                            ![p].failed = IF fails THEN @ \cup {RO_START} ELSE @]
    /\ UNCHANGED <<tableExists, columns, rows, nextId, image, active, cycles>>
    /\ UNCHANGED <<pending, dbOpen>>

\* conn = pymysql.connect(**DB_CONFIG)
DbConnect(p) ==
    /\ pc[p] = "ro_done"
    /\ ~DISABLE_DB
    /\ pc' = [pc EXCEPT ![p] = "db"]
    /\ dbOpen' = [dbOpen EXCEPT ![p] = TRUE]
    /\ obs' = [obs EXCEPT ![p].dbTried = TRUE]
    /\ UNCHANGED storeVars
    /\ UNCHANGED <<results, bit_expanded, volumeflow, timestamp, existing, kcol, pending,
                   clientOpen>>

\* pymysql.connect raises.
DbConnectFails(p) ==
    /\ pc[p] = "ro_done"
    /\ ~DISABLE_DB
    /\ faults < FaultBudget
    /\ faults' = faults + 1
    /\ Return(p)
    /\ pending' = [pending EXCEPT ![p] = << >>]
    /\ obs' = [obs EXCEPT ![p].dbTried = TRUE, ![p].stage = "db_connect_failed"]
    /\ UNCHANGED <<tableExists, columns, rows, nextId, image, active, cycles>>
    /\ UNCHANGED dbOpen

\* volumeflow = fetch_volumeflow(cursor)
Fetch(p) ==
    /\ pc[p] = "db"
    /\ \E answer \in {"row", "empty", "error"} :
        /\ answer # "row" => faults < FaultBudget
        /\ faults' = faults + (IF answer = "row" THEN 0 ELSE 1)
        /\ volumeflow' = [volumeflow EXCEPT ![p] = fetch_volumeflow(answer)]
        /\ obs' = [obs EXCEPT ![p].vfFailed = (answer # "row")]
    /\ pc' = [pc EXCEPT ![p] = "fetched"]
    /\ UNCHANGED <<tableExists, columns, rows, nextId, image, active, cycles>>
    /\ UNCHANGED <<results, bit_expanded, timestamp, existing, kcol, pending, dbOpen,
                   clientOpen>>

\* ensure_pivot_table(cursor)
EnsureTable(p) ==
    /\ pc[p] = "fetched"
    /\ columns' = ensure_pivot_table(tableExists, columns)
    /\ tableExists' = TRUE
    /\ pc' = [pc EXCEPT ![p] = "table"]
    /\ UNCHANGED <<rows, nextId, image, active, cycles, faults>>
    /\ UNCHANGED <<results, bit_expanded, volumeflow, timestamp, existing, kcol, pending,
                   dbOpen, clientOpen, obs>>

\* The CREATE TABLE statement raises (a timeout, a lost connection).
EnsureTableFails(p) ==
    /\ pc[p] = "fetched"
    /\ faults < FaultBudget
    /\ faults' = faults + 1
    /\ Abort(p, "create_failed")
    /\ UNCHANGED <<tableExists, columns, rows, nextId, image, active, cycles>>
    /\ UNCHANGED dbOpen

\* ensure_pivot_columns: SHOW COLUMNS FROM macon_pivot
ShowColumns(p) ==
    /\ pc[p] = "table"
    /\ LET fields == ColumnNames(columns)
       IN /\ existing' = [existing EXCEPT ![p] = fields]
          /\ kcol' = [kcol EXCEPT ![p] = NextMissing(fields, 1)]
          /\ obs' = [obs EXCEPT ![p].shown = TRUE,
                                ![p].fullSnapshot = (KnownNames \subseteq fields)]
    /\ pc' = [pc EXCEPT ![p] = "columns"]
    /\ UNCHANGED storeVars
    /\ UNCHANGED <<results, bit_expanded, volumeflow, timestamp, pending, dbOpen, clientOpen>>

\* ensure_pivot_columns: the next ALTER TABLE ... ADD COLUMN, accepted.
Alter(p) ==
    /\ pc[p] = "columns"
    /\ kcol[p] # 0
    /\ LET j == kcol[p]
           col == KnownColumns[j]
       IN /\ col[1] \notin ColumnNames(columns)
          /\ columns' = AddColumn(columns, col)
          /\ rows' = [i \in DOMAIN rows |-> ExtendRow(rows[i], col)]
          /\ kcol' = [kcol EXCEPT ![p] = NextMissing(existing[p], j + 1)]
    /\ obs' = [obs EXCEPT ![p].alters = @ + 1]
    /\ UNCHANGED <<tableExists, nextId, image, active, cycles, faults>>
    /\ UNCHANGED <<pc, results, bit_expanded, volumeflow, timestamp, existing, pending,
                   dbOpen, clientOpen>>

\* ensure_pivot_columns: the next ALTER names a column the table has by now
\* (another poller added it): the store answers "duplicate column name",
\* the statement raises and nothing catches it before main's except.
AlterDuplicate(p) ==
    /\ pc[p] = "columns"
    /\ kcol[p] # 0
    /\ KnownColumns[kcol[p]][1] \in ColumnNames(columns)
    /\ Abort(p, "alter_duplicate")
    /\ UNCHANGED storeVars
    /\ UNCHANGED dbOpen

\* ensure_pivot_columns: the next ALTER raises for another reason.
AlterFails(p) ==
    /\ pc[p] = "columns"
    /\ kcol[p] # 0
    /\ faults < FaultBudget
    /\ faults' = faults + 1
    /\ Abort(p, "alter_failed")
    /\ UNCHANGED <<tableExists, columns, rows, nextId, image, active, cycles>>
    /\ UNCHANGED dbOpen

\* ensure_pivot_columns returns: no known column is missing from its list.
ColumnsDone(p) ==
    /\ pc[p] = "columns"
    /\ kcol[p] = 0
    /\ pc' = [pc EXCEPT ![p] = "insert"]
    /\ UNCHANGED storeVars
    /\ UNCHANGED <<results, bit_expanded, volumeflow, timestamp, existing, kcol, pending,
                   dbOpen, clientOpen, obs>>

\* insert_pivot_row: the INSERT is accepted.
Insert(p) ==
    /\ pc[p] = "insert"
    /\ LET cols == InsertCols(results[p], bit_expanded[p])
       IN /\ InsertAccepted(cols)
          /\ pending' = [pending EXCEPT ![p] =
                << InsertedRow(nextId, cols, timestamp[p], results[p], bit_expanded[p],
                               volumeflow[p]) >>]
    /\ nextId' = nextId + 1
    /\ pc' = [pc EXCEPT ![p] = "inserted"]
    /\ obs' = [obs EXCEPT ![p].inserted = {nextId}]
    /\ UNCHANGED <<tableExists, columns, rows, image, active, cycles, faults>>
    /\ UNCHANGED <<results, bit_expanded, volumeflow, timestamp, existing, kcol, dbOpen,
                   clientOpen>>

\* insert_pivot_row: the INSERT raises, rejected by the store (an unknown or
\* repeated column) or failing for another reason.
InsertFails(p) ==
    /\ pc[p] = "insert"
    /\ LET accepted == InsertAccepted(InsertCols(results[p], bit_expanded[p]))
       IN /\ (~accepted) \/ faults < FaultBudget
          /\ faults' = IF accepted THEN faults + 1 ELSE faults
          /\ Abort(p, IF accepted THEN "insert_failed" ELSE "insert_rejected")
    /\ UNCHANGED <<tableExists, columns, rows, nextId, image, active, cycles>>
    /\ UNCHANGED dbOpen

\* A commit that writes over the newest row, as an upsert would.
commit_replacing(stored, written) ==
    IF stored = << >> THEN written
    ELSE [stored EXCEPT ![Len(stored)] = written[1]]

\* What conn.commit() makes of the table: the INSERT's row is appended.
commit(stored, written) == stored \o written

\* conn.commit()
Commit(p) ==
    /\ pc[p] = "inserted"
    /\ rows' = commit(rows, pending[p])
    /\ pending' = [pending EXCEPT ![p] = << >>]
    /\ pc' = [pc EXCEPT ![p] = "committed"]
    /\ obs' = [obs EXCEPT ![p].committed = TRUE]
    /\ UNCHANGED <<tableExists, columns, nextId, image, active, cycles, faults>>
    /\ UNCHANGED <<results, bit_expanded, volumeflow, timestamp, existing, kcol, dbOpen,
                   clientOpen>>

\* conn.commit() raises.
CommitFails(p) ==
    /\ pc[p] = "inserted"
    /\ faults < FaultBudget
    /\ faults' = faults + 1
    /\ Abort(p, "commit_failed")
    /\ UNCHANGED <<tableExists, columns, rows, nextId, image, active, cycles>>
    /\ UNCHANGED dbOpen

\* conn.close(); the success line; finally: client.close().
Close(p) ==
    /\ pc[p] = "committed"
    /\ dbOpen' = [dbOpen EXCEPT ![p] = FALSE]
    /\ Return(p)
    /\ obs' = [obs EXCEPT ![p].stage = "ok"]
    /\ UNCHANGED storeVars
    /\ UNCHANGED pending

(***************************************************************************)
(* The bit decoders on one word                                            *)
(***************************************************************************)
\* write_freq.py BIT_FIELDS
BIT_FIELDS == <<
    [reg |-> 2136, bits |-> <<
        <<3, "Brine side water pump (0=OFF, 1=ON)">>,
        <<5, "Defrost (0=OFF, 1=ON)">>,
        <<8, "Wired controller connecting status (0=Disconnected, 1=Connected)">> >>],
    [reg |-> 2137, bits |-> <<
        <<2, "Inlet water temp sensor error (0=OK, 1=Error)">>,
        <<3, "Outlet water temp sensor error (0=OK, 1=Error)">>,
        <<8, "Ambient temperature sensor error (0=OK, 1=Error)">> >>] >>

FieldEntries == Range(BIT_FIELDS)

\* BIT_FIELDS.get(reg, {})
FieldsOf(reg) ==
    IF \E e \in FieldEntries : e.reg = reg
    THEN Range((CHOOSE e \in FieldEntries : e.reg = reg).bits)
    ELSE {}

\* A decoder over range(16) that labels the bits BIT_FIELDS does not declare.
decode_bits_all16(value, reg) ==
    [i \in 0..15 |->
        [value |-> (value \div (2 ^ i)) % 2,
         desc |-> IF \E b \in FieldsOf(reg) : b[1] = i
                  THEN (CHOOSE b \in FieldsOf(reg) : b[1] = i)[2]
                  ELSE "Bit" \o ToString(i) \o " (Reserved)"]]

\* write_freq.decode_bits(value, reg): the bits BIT_FIELDS declares for reg.
decode_bits_reg(value, reg) ==
    [i \in {b[1] : b \in FieldsOf(reg)} |->
        [value |-> (value \div (2 ^ i)) % 2,
         desc |-> (CHOOSE b \in FieldsOf(reg) : b[1] = i)[2]]]

\* The addresses decoded: declared by neither file, by maconread2db only, by both.
BitAddresses == {2100, 2135, 2136, 2137}

BitIdle ==
    /\ bpc = "idle"
    /\ bvalue = 0
    /\ baddress = 0
    /\ bfields = NoMap
    /\ bbits = NoMap
    /\ bflags = NoMap


BitInit ==
    /\ bpc = "input"
    /\ bvalue \in Word16
    /\ baddress \in BitAddresses
    /\ bfields = NoMap
    /\ bbits = NoMap
    /\ bflags = NoMap

\* write_freq.py: bits = decode_bits(value, reg)
DecodeFields ==
    /\ bpc = "input"
    /\ bfields' = decode_bits_reg(bvalue, baddress)
    /\ bpc' = "fields"
    /\ UNCHANGED <<bvalue, baddress, bbits, bflags>>

\* maconread2db.py: bits = decode_bits(val)
DecodeBits ==
    /\ bpc = "input"
    /\ bbits' = decode_bits(bvalue)
    /\ bpc' = "bits"
    /\ UNCHANGED <<bvalue, baddress, bfields, bflags>>

\* maconread2db.py: one register of the block through the bit expansion.
ExpandRegister ==
    /\ bpc = "input"
    /\ baddress \in RegKeys
    /\ bflags' = IF RegEntry(baddress).unit = "bits" /\ baddress \in BitKeys
                 THEN LET pairs == ExpandBits(baddress, bvalue)
                      IN [c \in {q[1] : q \in pairs} |->
                              (CHOOSE q \in pairs : q[1] = c)[2]]
                 ELSE NoMap
    /\ bpc' = "flags"
    /\ UNCHANGED <<bvalue, baddress, bfields, bbits>>

(***************************************************************************)
(* write_freq.py: one run                                                  *)
(***************************************************************************)
\* time.sleep(WRITE_DELAY), in milliseconds
WRITE_DELAY == 200

HOT_WATER_TANK_DELTA_T_REG == 2007

HOT_WATER_TANK_DELTA_T_VALUE == 5

DHW_SETPOINT_REG == 2004

DHW_SETPOINT_VALUE == 45

HOST_CONTROL_REG == 2056

HOST_CONTROL_ON == 1

HOST_CONTROL_OFF == 0

COMPRESSOR_FREQ_REG == 2057

COMPRESSOR_FREQ_VALUE == 70

BRINE_PUMP_STATUS_REG == 2136

BRINE_PUMP_BIT == 3

ERROR_CODE_REG == 2137

\* What the bus returns to one call: an answer with a word, or a failure
\* (an error answer or a ModbusException).
Responses(words) ==
    {[kind |-> "answer", word |-> v] : v \in words} \cup {[kind |-> "failed", word |-> 0]}

\* Status words: brine pump off and on, alone and among other bits.
PumpStatusSamples == {0, 8, 288, 65527, 65535}

\* Error words: none, two declared sensor errors.
ErrorSamples == {0, 12}

\* What a holding register may hold at the read-back: the value the run
\* writes there and another value the unit can hold.
HoldingSamples(reg) ==
    IF reg = HOT_WATER_TANK_DELTA_T_REG THEN {HOT_WATER_TANK_DELTA_T_VALUE, 3}
    ELSE IF reg = DHW_SETPOINT_REG THEN {DHW_SETPOINT_VALUE, 50}
    ELSE IF reg = HOST_CONTROL_REG THEN {HOST_CONTROL_OFF, HOST_CONTROL_ON}
    ELSE {COMPRESSOR_FREQ_VALUE, 12}

\* read_register(address): the word, None on an error answer or an exception.
wf_read_register(res) == IF res.kind = "answer" THEN {res.word} ELSE {}

\* write_register(address, value): True when the write was answered.
write_register(res) == res.kind = "answer"

\* The pump flag read off bit 5 instead of BRINE_PUMP_BIT.
pump_on_bit5(value) ==
    LET bits == decode_bits_reg(value, BRINE_PUMP_STATUS_REG)
    IN IF 5 \in DOMAIN bits THEN bits[5].value ELSE 0

\* bits = decode_bits(status_val, BRINE_PUMP_STATUS_REG)
\* pump_on = bits.get(BRINE_PUMP_BIT, {"value": 0})["value"]
pump_on_of(value) ==
    LET bits == decode_bits_reg(value, BRINE_PUMP_STATUS_REG)
    IN IF BRINE_PUMP_BIT \in DOMAIN bits THEN bits[BRINE_PUMP_BIT].value ELSE 0

\* One bus operation as the log tells it, with the pause that preceded it.
BusOp(kind, reg, value, ok) ==
    [kind |-> kind, reg |-> reg, value |-> value, ok |-> ok, gap |-> fslept]

WriteIdle ==
    /\ fpc = "idle"
    /\ success = FALSE
    /\ status_val = {}
    /\ pump_on = {}
    /\ error_val = {}
    /\ written_registers = << >>
    /\ wclient = "new"
    /\ fslept = 0
    /\ ops = << >>
    /\ verified = << >>
    /\ summary = "none"
    /\ unexpected = FALSE

\* The module body before client.connect().
WriteInit ==
    /\ fpc = "start"
    /\ success = FALSE
    /\ status_val = {}
    /\ pump_on = {}
    /\ error_val = {}
    /\ written_registers = << >>
    /\ wclient = "new"
    /\ fslept = 0
    /\ ops = << >>
    /\ verified = << >>
    /\ summary = "none"
    /\ unexpected = FALSE

\* client.connect() succeeds; success = True
FreqConnect ==
    /\ fpc = "start"
    /\ wclient' = "open"
    /\ success' = TRUE
    /\ fpc' = "delta_t"
    /\ UNCHANGED <<status_val, pump_on, error_val, written_registers, fslept, ops, verified,
                   summary, unexpected>>

\* client.connect() fails: exit(1) ahead of the try.
FreqConnectFails ==
    /\ fpc = "start"
    /\ fpc' = "exit"
    /\ UNCHANGED <<success, status_val, pump_on, error_val, written_registers, wclient,
                   fslept, ops, verified, summary, unexpected>>

\* write_register(2007, 5); time.sleep(WRITE_DELAY)
WriteDeltaT ==
    /\ fpc = "delta_t"
    /\ \E res \in Responses({0}) :
        /\ ops' = Append(ops, BusOp("write", HOT_WATER_TANK_DELTA_T_REG,
                                    {HOT_WATER_TANK_DELTA_T_VALUE}, write_register(res)))
        /\ success' = (success /\ write_register(res))
    /\ fslept' = WRITE_DELAY
    /\ fpc' = "setpoint"
    /\ UNCHANGED <<status_val, pump_on, error_val, written_registers, wclient, verified,
                   summary, unexpected>>

\* write_register(2004, 45); time.sleep(WRITE_DELAY)
WriteSetpoint ==
    /\ fpc = "setpoint"
    /\ \E res \in Responses({0}) :
        /\ ops' = Append(ops, BusOp("write", DHW_SETPOINT_REG, {DHW_SETPOINT_VALUE},
                                    write_register(res)))
        /\ success' = (success /\ write_register(res))
    /\ fslept' = WRITE_DELAY
    /\ fpc' = "status"
    /\ UNCHANGED <<status_val, pump_on, error_val, written_registers, wclient, verified,
                   summary, unexpected>>

\* status_val = read_register(2136) and the branch on it, up to the next
\* bus operation.
ReadStatus ==
    /\ fpc = "status"
    /\ \E res \in Responses(PumpStatusSamples) :
        LET val == wf_read_register(res)
        IN /\ status_val' = val
           /\ ops' = Append(ops, BusOp("read", BRINE_PUMP_STATUS_REG, val, val # {}))
           /\ IF val = {}
              THEN /\ success' = FALSE
                   /\ pump_on' = pump_on
                   /\ fpc' = "errors"
              ELSE /\ success' = success
                   /\ pump_on' = {pump_on_of(res.word)}
                   /\ fpc' = "host"
    /\ fslept' = 0
    /\ UNCHANGED <<error_val, written_registers, wclient, verified, summary, unexpected>>

\* if pump_on: write_register(2056, 1); time.sleep(WRITE_DELAY)
\* else: write_register(2056, 0)
WriteHostControl ==
    /\ fpc = "host"
    /\ \E res \in Responses({0}) :
        /\ ops' = Append(ops, BusOp("write", HOST_CONTROL_REG,
                                    IF pump_on = {1} THEN {HOST_CONTROL_ON}
                                    ELSE {HOST_CONTROL_OFF},
                                    write_register(res)))
        /\ success' = (success /\ write_register(res))
    /\ fslept' = IF pump_on = {1} THEN WRITE_DELAY ELSE 0
    /\ fpc' = IF pump_on = {1} THEN "frequency" ELSE "errors"
    /\ UNCHANGED <<status_val, pump_on, error_val, written_registers, wclient, verified,
                   summary, unexpected>>

\* write_register(2057, 70)
WriteFrequency ==
    /\ fpc = "frequency"
    /\ \E res \in Responses({0}) :
        /\ ops' = Append(ops, BusOp("write", COMPRESSOR_FREQ_REG, {COMPRESSOR_FREQ_VALUE},
                                    write_register(res)))
        /\ success' = (success /\ write_register(res))
    /\ fslept' = 0
    /\ fpc' = "errors"
    /\ UNCHANGED <<status_val, pump_on, error_val, written_registers, wclient, verified,
                   summary, unexpected>>

\* error_val = read_register(2137), then the list of registers to verify;
\* "if pump_on" raises NameError when the status read left pump_on unbound:
\* except logs "Unexpected error", finally closes the client.
ReadErrors ==
    /\ fpc = "errors"
    /\ \E res \in Responses(ErrorSamples) :
        LET val == wf_read_register(res)
        IN /\ error_val' = val
           /\ ops' = Append(ops, BusOp("read", ERROR_CODE_REG, val, val # {}))
           /\ success' = (success /\ val # {})
    /\ fslept' = 0
    /\ IF pump_on = {}
       THEN /\ written_registers' =
                  <<HOT_WATER_TANK_DELTA_T_REG, DHW_SETPOINT_REG, HOST_CONTROL_REG>>
            /\ unexpected' = TRUE
            /\ wclient' = "closed"
            /\ fpc' = "closed"
       ELSE /\ written_registers' =
                  <<HOT_WATER_TANK_DELTA_T_REG, DHW_SETPOINT_REG, HOST_CONTROL_REG>>
                  \o (IF pump_on = {1} THEN <<COMPRESSOR_FREQ_REG>> ELSE << >>)
            /\ unexpected' = unexpected
            /\ wclient' = wclient
            /\ fpc' = "verify"
    /\ UNCHANGED <<status_val, pump_on, verified, summary>>

\* One pass of the verification loop: val = read_register(reg); after the
\* last pass the Summary line and finally's client.close().
Verify ==
    /\ fpc = "verify"
    /\ LET reg == written_registers[Len(verified) + 1]
           last == Len(verified) + 1 = Len(written_registers)
       IN \E res \in Responses(HoldingSamples(reg)) :
            LET val == wf_read_register(res)
            IN /\ ops' = Append(ops, BusOp("read", reg, val, val # {}))
               /\ verified' = Append(verified, [reg |-> reg, val |-> val])
               /\ success' = (success /\ val # {})
               /\ summary' = IF ~last THEN summary
                             ELSE IF success /\ val # {} THEN "Success" ELSE "Failed"
               /\ wclient' = IF last THEN "closed" ELSE wclient
               /\ fpc' = IF last THEN "closed" ELSE "verify"
    /\ fslept' = 0
    /\ UNCHANGED <<status_val, pump_on, error_val, written_registers, unexpected>>

\* The scripts that do not run stay as they are.
ToolIdle == BitIdle /\ WriteIdle

(***************************************************************************)
(* Specifications                                                          *)
(***************************************************************************)
\* The monitoring loop over every first status word.
PhaseInit == WordIdle /\ SolarInit /\ MuxInit /\ PollIdle /\ ToolIdle

PhaseNext ==
    \/ MonitorPoll /\ UNCHANGED <<solarVars, muxVars, pollVars, toolVars>>
    \/ MonitorError /\ UNCHANGED <<solarVars, muxVars, pollVars, toolVars>>
    \/ MonitorSleep /\ UNCHANGED <<solarVars, muxVars, pollVars, toolVars>>

SpecPhase == PhaseInit /\ [][PhaseNext]_vars

\* The folds over every word.
FoldNext == Views /\ UNCHANGED <<solarVars, muxVars, pollVars, toolVars>>

FoldInit == WordInit /\ SolarInit /\ MuxInit /\ PollIdle /\ ToolIdle

SpecFold == FoldInit /\ [][FoldNext]_vars

\* One run of debug_solar.py.
SolarRunInit == WordIdle /\ SolarInit /\ MuxInit /\ PollIdle /\ ToolIdle

SolarNext ==
    \/ DebugSolar /\ UNCHANGED <<wordVars, muxVars, pollVars, toolVars>>
    \/ DebugSolarError /\ UNCHANGED <<wordVars, muxVars, pollVars, toolVars>>

SpecSolar == SolarRunInit /\ [][SolarNext]_vars

\* One run of debug_multiplexer.py.
MuxRunInit == WordIdle /\ SolarInit /\ MuxInitAny /\ PollIdle /\ ToolIdle

MuxNext ==
    \/ MuxMeasure /\ UNCHANGED <<wordVars, solarVars, pollVars, toolVars>>
    \/ MuxMeasureError /\ UNCHANGED <<wordVars, solarVars, pollVars, toolVars>>
    \/ MuxLoopEnd /\ UNCHANGED <<wordVars, solarVars, pollVars, toolVars>>
    \/ MuxDiagnose /\ UNCHANGED <<wordVars, solarVars, pollVars, toolVars>>
    \/ MuxDiagnoseError /\ UNCHANGED <<wordVars, solarVars, pollVars, toolVars>>

SpecMux == MuxRunInit /\ [][MuxNext]_vars


\* The bit decoders over every 16-bit value.
BitsInit == WordIdle /\ SolarInit /\ MuxInit /\ PollIdle /\ BitInit /\ WriteIdle

BitsNext ==
    \/ DecodeFields /\ UNCHANGED <<wordVars, solarVars, muxVars, pollVars, writeVars>>
    \/ DecodeBits /\ UNCHANGED <<wordVars, solarVars, muxVars, pollVars, writeVars>>
    \/ ExpandRegister /\ UNCHANGED <<wordVars, solarVars, muxVars, pollVars, writeVars>>

SpecBits == BitsInit /\ [][BitsNext]_vars

\* One run of write_freq.py.
WriteRunInit == WordIdle /\ SolarInit /\ MuxInit /\ PollIdle /\ BitIdle /\ WriteInit

WriteNext ==
    \/ FreqConnect /\ UNCHANGED <<wordVars, solarVars, muxVars, pollVars, bitVars>>
    \/ FreqConnectFails /\ UNCHANGED <<wordVars, solarVars, muxVars, pollVars, bitVars>>
    \/ WriteDeltaT /\ UNCHANGED <<wordVars, solarVars, muxVars, pollVars, bitVars>>
    \/ WriteSetpoint /\ UNCHANGED <<wordVars, solarVars, muxVars, pollVars, bitVars>>
    \/ ReadStatus /\ UNCHANGED <<wordVars, solarVars, muxVars, pollVars, bitVars>>
    \/ WriteHostControl /\ UNCHANGED <<wordVars, solarVars, muxVars, pollVars, bitVars>>
    \/ WriteFrequency /\ UNCHANGED <<wordVars, solarVars, muxVars, pollVars, bitVars>>
    \/ ReadErrors /\ UNCHANGED <<wordVars, solarVars, muxVars, pollVars, bitVars>>
    \/ Verify /\ UNCHANGED <<wordVars, solarVars, muxVars, pollVars, bitVars>>

SpecWrite == WriteRunInit /\ [][WriteNext]_vars

\* Poll cycles of the pollers sharing the pivot table.
Init == WordIdle /\ SolarInit /\ MuxInit /\ PollInit /\ ToolIdle

Next ==
    \/ \E p \in Pollers : Connect(p) /\ UNCHANGED <<wordVars, solarVars, muxVars, toolVars>>
    \/ \E p \in Pollers : ConnectFails(p) /\ UNCHANGED <<wordVars, solarVars, muxVars, toolVars>>
    \/ \E p \in Pollers : ReadRW(p) /\ UNCHANGED <<wordVars, solarVars, muxVars, toolVars>>
    \/ \E p \in Pollers : ReadRO(p) /\ UNCHANGED <<wordVars, solarVars, muxVars, toolVars>>
    \/ \E p \in Pollers : DbConnect(p) /\ UNCHANGED <<wordVars, solarVars, muxVars, toolVars>>
    \/ \E p \in Pollers : DbConnectFails(p) /\ UNCHANGED <<wordVars, solarVars, muxVars, toolVars>>
    \/ \E p \in Pollers : Fetch(p) /\ UNCHANGED <<wordVars, solarVars, muxVars, toolVars>>
    \/ \E p \in Pollers : EnsureTable(p) /\ UNCHANGED <<wordVars, solarVars, muxVars, toolVars>>
    \/ \E p \in Pollers : EnsureTableFails(p) /\ UNCHANGED <<wordVars, solarVars, muxVars, toolVars>>
    \/ \E p \in Pollers : ShowColumns(p) /\ UNCHANGED <<wordVars, solarVars, muxVars, toolVars>>
    \/ \E p \in Pollers : Alter(p) /\ UNCHANGED <<wordVars, solarVars, muxVars, toolVars>>
    \/ \E p \in Pollers : AlterDuplicate(p) /\ UNCHANGED <<wordVars, solarVars, muxVars, toolVars>>
    \/ \E p \in Pollers : AlterFails(p) /\ UNCHANGED <<wordVars, solarVars, muxVars, toolVars>>
    \/ \E p \in Pollers : ColumnsDone(p) /\ UNCHANGED <<wordVars, solarVars, muxVars, toolVars>>
    \/ \E p \in Pollers : Insert(p) /\ UNCHANGED <<wordVars, solarVars, muxVars, toolVars>>
    \/ \E p \in Pollers : InsertFails(p) /\ UNCHANGED <<wordVars, solarVars, muxVars, toolVars>>
    \/ \E p \in Pollers : Commit(p) /\ UNCHANGED <<wordVars, solarVars, muxVars, toolVars>>
    \/ \E p \in Pollers : CommitFails(p) /\ UNCHANGED <<wordVars, solarVars, muxVars, toolVars>>
    \/ \E p \in Pollers : Close(p) /\ UNCHANGED <<wordVars, solarVars, muxVars, toolVars>>

Spec == Init /\ [][Next]_vars

(***************************************************************************)
(* Claims                                                                  *)
(***************************************************************************)
\* C1 (as claimed): after a debug_solar run, a raw value in the closed range
\* 4000..40000 is reported in range and decoded to (raw - 26402) / 60 (to
\* the half hundredth the rounding allows); a raw value outside it is
\* reported out of range.
C1_ClosedRangeDecodes ==
    spc = "done" =>
        IF 4000 <= raw_so /\ raw_so <= 40000
        THEN /\ inRange
             /\ 60 * temp_so - 100 * (raw_so - 26402) <= 30
             /\ 100 * (raw_so - 26402) - 60 * temp_so <= 30
        ELSE ~inRange

\* C2 (as claimed): to_s(to_u(w)) = w for every word w in 0..65535.
C2_SignedOfUnsignedIsIdentity == wpc = "folded" => rtSU = w

\* C2 (amended): for every word w in 0..65535, to_u(to_s(w)) = w; and
\* to_s(to_u(w)) is w's signed value: in -32768..32767, congruent to w
\* modulo 65536, and equal to w exactly when w < 32768.
C2_FoldRoundTrip ==
    wpc = "folded" =>
        /\ rtUS = w
        /\ val_u = w
        /\ rtSU = val_s
        /\ rtSU \in -32768..32767
        /\ (rtSU - w) % 65536 = 0
        /\ (rtSU = w) <=> (w < 32768)

C2_Witness == wpc = "folded" /\ w = 40000 /\ rtSU = -25536 /\ rtUS = 40000

\* C3 (as claimed): a solar sample reported good was read in a poll whose
\* phase differs from the poll before, or after a pause longer than the
\* settle time.
C3_TrustOnlyAtTransitionOrSettled ==
    (mtrust /\ mprev # None) => (mphase # mprev \/ mgap > settle)

\* C4: after every answered poll the phase is A or B, it is A exactly when
\* bit 4 of that poll's status word is set, and the bit reads the same on
\* the signed view and on the unsigned word.
C4_PhaseIsBit4 ==
    (polls > 0 /\ phase # None) =>
        /\ phase \in {"A", "B"}
        /\ (phase = "A") <=> ((w \div 16) % 2 = 1)
        /\ status \in -32768..32767
        /\ (status - w) % 65536 = 0
        /\ BitAnd(status, 16) = BitAnd(w, 16)

C4_Witness ==
    /\ wpc = "resolved"
    /\ polls = 2
    /\ lastPhase = "B"
    /\ phase = "A"
    /\ status < 0

\* The table's full column set: id, timestamp and every known column.
FullColumns == ensure_pivot_table(FALSE, {}) \cup Range(KnownColumns)

\* The committed rows a poller's last cycle inserted.
RowsOf(p) == {i \in DOMAIN rows : rows[i]["id"] = obs[p].inserted}

\* The registers of the block read that the catalog names.
BlockRegs == {r \in RegKeys : RO_START <= r /\ r < RO_START + RO_COUNT}

\* The registers a poller's last cycle read with an answer.
ReadOk(p) ==
    ((obs[p].tried \cap RegKeys) \ obs[p].failed)
    \cup (IF obs[p].blockTried /\ RO_START \notin obs[p].failed THEN BlockRegs ELSE {})

\* The registers a poller's last cycle asked for and got no answer for.
ReadFailed(p) ==
    ((obs[p].tried \cap RegKeys) \cap obs[p].failed)
    \cup (IF obs[p].blockTried /\ RO_START \in obs[p].failed THEN BlockRegs ELSE {})

\* The bit-flag columns of a status register.
BitColsOfReg(reg) == {BitCol(b[1], b[2]) : b \in Range(BitsOf(reg))}

\* The stages a cycle ends in because a store operation failed.
StoreFailures ==
    {"db_connect_failed", "create_failed", "alter_duplicate", "alter_failed",
     "insert_failed", "commit_failed"}

\* C5 (as claimed): a poller whose ADD COLUMN was refused as a duplicate,
\* another poller having added the column after both had listed the
\* columns, still inserts and commits its row in that cycle, and the table
\* keeps a well-formed column set.
C5_DuplicateAddStillInserts ==
    \A p \in Pollers :
        obs[p].stage = "alter_duplicate" =>
            /\ columns \subseteq FullColumns
            /\ obs[p].committed
            /\ RowsOf(p) # {}

\* C6: a finished cycle whose connect succeeded and in which exactly one of
\* the seven reads (six single registers and the block) got no answer ends
\* neither in the read nor in a refused INSERT; unless a store operation
\* failed it ends with exactly one row of its own, and every register read
\* with an answer fills its column with the word read.
C6_OneFailedReadStillInserts ==
    \A p \in Pollers :
        (pc[p] = "done" /\ obs[p].connected /\ Cardinality(obs[p].failed) = 1) =>
            /\ obs[p].stage \in StoreFailures \cup {"ok"}
            /\ obs[p].stage \notin StoreFailures =>
                /\ Cardinality(RowsOf(p)) = 1
                /\ \A i \in RowsOf(p) :
                    /\ rows[i]["timestamp"] # {}
                    /\ \A reg \in ReadOk(p) :
                        rows[i][RegEntry(reg).name] = {DeviceWord(image, reg)}
                    /\ Cardinality(ReadOk(p)) =
                          Cardinality(RegKeys) - Cardinality(ReadFailed(p))

C6_Witness ==
    /\ image = "mixed"
    /\ pc["p1"] = "done"
    /\ obs["p1"].stage = "ok"
    /\ obs["p1"].failed = {2007}
    /\ \E i \in RowsOf("p1") :
        /\ rows[i][RegEntry(2007).name] = {}
        /\ rows[i][RegEntry(2004).name] = {0}
        /\ rows[i][RegEntry(2047).name] = {DeviceWord("mixed", 2047)}
        /\ rows[i][RegEntry(2138).name] = {DeviceWord("mixed", 2138)}

\* C7 (as claimed): in the committed row of a cycle, every column fed by a
\* register read that got no answer holds NULL, the bit-flag columns of an
\* unread status register included, and Volumeflow holds NULL when its fetch
\* failed.
C7_FailedSourcesAreNull ==
    \A p \in Pollers : \A i \in RowsOf(p) :
        /\ \A reg \in ReadFailed(p) :
            /\ rows[i][RegEntry(reg).name] = {}
            /\ reg \in BitKeys => \A c \in BitColsOfReg(reg) : rows[i][c] = {}
        /\ obs[p].vfFailed => rows[i]["Volumeflow"] = {}

\* C7 (amended): a cycle in which reads or the Volumeflow fetch failed ends
\* neither in the read nor in a refused INSERT; in its committed row the
\* measurement column of every register that got no answer holds NULL,
\* Volumeflow holds NULL when its fetch failed, and the bit-flag columns of
\* a status register that got no answer hold their default 0, not NULL.
C7_FailedSourcesNullBitsDefault ==
    \A p \in Pollers :
        /\ (pc[p] = "done" /\ obs[p].connected) =>
                obs[p].stage \in StoreFailures \cup {"ok"}
        /\ obs[p].stage = "ok" => Cardinality(RowsOf(p)) = 1
        /\ \A i \in RowsOf(p) :
            /\ \A reg \in ReadFailed(p) :
                /\ rows[i][RegEntry(reg).name] = {}
                /\ reg \in BitKeys => \A c \in BitColsOfReg(reg) : rows[i][c] = {0}
            /\ \A reg \in ReadOk(p) :
                /\ rows[i][RegEntry(reg).name] # {}
                /\ reg \in BitKeys => \A c \in BitColsOfReg(reg) : rows[i][c] \in {{0}, {1}}
            /\ rows[i]["Volumeflow"] = (IF obs[p].vfFailed THEN {} ELSE VolumeflowSamples)

C7_Witness ==
    /\ image = "mixed"
    /\ obs["p1"].stage = "ok"
    /\ obs["p1"].failed = {RO_START}
    /\ \E i \in RowsOf("p1") :
        /\ rows[i][RegEntry(2135).name] = {}
        /\ rows[i]["Bit5_Defrost"] = {0}
        /\ rows[i][RegEntry(2004).name] = {0}
        /\ rows[i][RegEntry(2047).name] = {DeviceWord("mixed", 2047)}

\* C8: no step of any poller, in a cycle that completes or in one that
\* aborts, removes a column of the pivot table or changes its definition.
C8_ColumnsOnlyGrow == [][columns \subseteq columns']_vars

C8_Witness ==
    /\ active = Pollers
    /\ columns = FullColumns
    /\ obs["p1"].stage = "alter_duplicate"
    /\ obs["p2"].stage = "ok"
    /\ obs["p2"].alters > 0
    /\ Len(rows) = 1

\* The positions of main() after ensure_pivot_columns has returned.
AfterEnsure == {"insert", "inserted", "committed"}

\* C9: when ensure_pivot_columns returns, the table has exactly id,
\* timestamp and the known register, bit-flag and Volumeflow columns; the
\* first call on a new table issues one ALTER per known column; a call that
\* finds every known column in the table issues no ALTER, is refused none,
\* and leaves the columns as they are.
C9_EnsureColumnsIdempotent ==
    \A p \in Pollers :
        /\ pc[p] \in AfterEnsure => columns = FullColumns
        /\ (pc[p] \in AfterEnsure /\ active = {p} /\ cycles = 1) =>
                obs[p].alters = Len(KnownColumns)
        /\ (obs[p].shown /\ obs[p].fullSnapshot) =>
                /\ obs[p].alters = 0
                /\ columns = FullColumns
                /\ obs[p].stage \notin {"alter_duplicate", "alter_failed"}
                /\ pc[p] = "columns" => kcol[p] = 0

C9_Witness ==
    /\ active = {"p1"}
    /\ cycles = 2
    /\ Len(rows) = 2
    /\ obs["p1"].stage = "ok"
    /\ obs["p1"].fullSnapshot
    /\ obs["p1"].alters = 0
    /\ columns = FullColumns
    /\ Cardinality(columns) = Len(KnownColumns) + 2

\* C10: a cycle whose Modbus connect failed tried the connect once and
\* nothing else: no register read, no block read, no store operation. A
\* finished cycle whose connect succeeded tried all six single reads and the
\* block read, whichever of them got no answer, and went on to the store.
C10_OnlyConnectFailureAborts ==
    \A p \in Pollers :
        /\ obs[p].stage = "connect_failed" =>
            /\ pc[p] = "done"
            /\ obs[p].connects = 1
            /\ obs[p].tried = {}
            /\ ~obs[p].blockTried
            /\ ~obs[p].dbTried
            /\ ~obs[p].shown
            /\ obs[p].inserted = {}
        /\ (obs[p].connected /\ pc[p] = "done") =>
            /\ obs[p].connects = 1
            /\ obs[p].tried = Range(RW_REGS)
            /\ obs[p].blockTried
            /\ obs[p].dbTried
            /\ obs[p].stage # "read_raised"

C10_Witness ==
    /\ pc["p1"] = "done"
    /\ obs["p1"].connected
    /\ obs["p1"].failed = {RO_START}
    /\ obs["p1"].tried = Range(RW_REGS)
    /\ obs["p1"].dbTried
    /\ obs["p1"].stage = "ok"
    /\ Len(rows) = 1

\* C11: a poll cycle issues at most one INSERT, of one row, and nothing else
\* touches the rows: a step either leaves the row count alone or is a commit
\* that appends the one pending row; every row already persisted keeps every
\* value it had; a cycle's insert id is set at most once.
C11_InsertOnly ==
    [][ /\ \A i \in DOMAIN rows :
            /\ i \in DOMAIN rows'
            /\ \A c \in DOMAIN rows[i] :
                  c \in DOMAIN rows'[i] /\ rows'[i][c] = rows[i][c]
        /\ \/ Len(rows') = Len(rows)
           \/ \E p \in Pollers :
                 /\ pc[p] = "inserted" /\ pc'[p] = "committed"
                 /\ Len(pending[p]) = 1
                 /\ Len(rows') = Len(rows) + 1
                 /\ rows'[Len(rows')] = pending[p][1]
        /\ \A p \in Pollers :
              /\ Len(pending'[p]) <= 1
              /\ obs'[p].inserted # obs[p].inserted
                    => (obs[p].inserted = {} \/ obs'[p].inserted = {})
              /\ (obs'[p].committed /\ ~obs[p].committed)
                    => Len(rows') = Len(rows) + 1 ]_vars

\* Two cycles committed one row each: two rows, each with its own id.
C11_Witness ==
    /\ Len(rows) = 2
    /\ rows[1]["id"] = {1}
    /\ rows[2]["id"] = {2}
    /\ cycles = 2
    /\ \A p \in active : pc[p] = "done" /\ obs[p].stage = "ok"

\* The bit indices write_freq.py declares for an address.
DeclaredFields(reg) == {b[1] : b \in FieldsOf(reg)}

\* The bit indices maconread2db.py declares for an address.
DeclaredBits(reg) == IF reg \in BitKeys THEN {b[1] : b \in Range(BitsOf(reg))} ELSE {}

\* The flag columns maconread2db.py declares for an address.
DeclaredFlags(reg) ==
    IF reg \in BitKeys THEN {BitCol(b[1], b[2]) : b \in Range(BitsOf(reg))} ELSE {}

\* Python's (value >> bit) & 1
ShiftAnd1(value, bit) == BitAnd(value \div (2 ^ bit), 1)

\* C12 (as claimed): the result of each decoder holds exactly the bit indices
\* declared for the address, each with (value >> bit) & 1, and the expanded
\* flags hold declared bits only.
C12_DecodersKeepDeclaredBitsOnly ==
    /\ bpc = "fields" =>
          /\ DOMAIN bfields = DeclaredFields(baddress)
          /\ \A i \in DOMAIN bfields : bfields[i].value = ShiftAnd1(bvalue, i)
    /\ bpc = "bits" =>
          /\ DOMAIN bbits = DeclaredBits(baddress)
          /\ \A i \in DOMAIN bbits : bbits[i] = ShiftAnd1(bvalue, i)
    /\ bpc = "flags" => DOMAIN bflags = DeclaredFlags(baddress)

\* C12 (amended): write_freq's decoder holds exactly the declared bit indices
\* of the address; maconread2db's decoder takes no address and holds all 16
\* bit indices; the expanded flags are exactly the declared flag columns, each
\* with (value >> bit) & 1.
C12_FlagsKeepDeclaredBitsOnly ==
    /\ bpc = "fields" =>
          /\ DOMAIN bfields = DeclaredFields(baddress)
          /\ \A i \in DOMAIN bfields : bfields[i].value = ShiftAnd1(bvalue, i)
    /\ bpc = "bits" =>
          /\ DOMAIN bbits = 0..15
          /\ \A i \in DOMAIN bbits : bbits[i] = ShiftAnd1(bvalue, i)
    /\ bpc = "flags" =>
          /\ DOMAIN bflags = DeclaredFlags(baddress)
          /\ baddress \in BitKeys =>
                \A b \in Range(BitsOf(baddress)) :
                    bflags[BitCol(b[1], b[2])] = ShiftAnd1(bvalue, b[1])

\* A word with every bit set went through the expansion of register 2136 and
\* left only the declared flags.
C12_Witness ==
    /\ bpc = "flags"
    /\ baddress = 2136
    /\ bvalue = 65535
    /\ bflags # NoMap
    /\ Cardinality(DOMAIN bflags) < 16
    /\ \A c \in DOMAIN bflags : bflags[c] = 1

\* The class a diagnosis of debug_multiplexer.py stands for.
MuxClass(diag) ==
    IF diag \in {"zero_sensor", "zero_multiplexer"} THEN "zero"
    ELSE IF diag \in {"ok", "ok_implausible"} THEN "ok"
    ELSE diag

\* The classes whose range holds the raw value, zero taken out of too low.
MuxClassesOf(raw) ==
    {c \in {"zero", "low", "high", "ok"} :
        \/ c = "zero" /\ raw = 0
        \/ c = "low" /\ 0 < raw /\ raw < 4000
        \/ c = "high" /\ raw > 40000
        \/ c = "ok" /\ 4000 <= raw /\ raw <= 40000}

\* Every 16-bit raw value lies in one class, and the chain names that class
\* whatever the two other sensors show.
MuxClassesPartition ==
    \A raw \in Word16 :
        /\ Cardinality(MuxClassesOf(raw)) = 1
        /\ \A vl \in OtherSamples, ww \in OtherSamples :
              MuxClass(MuxDiagnosis(raw, vl, ww)) \in MuxClassesOf(raw)

\* C13: a shared-channel raw value of 0 is diagnosed as sensor not connected
\* or multiplexer not switching, in phase B as in phase A, never as too high;
\* every raw value is put in exactly one of zero, too low, too high and OK.
C13_ZeroIsDisconnected ==
    /\ MuxClassesPartition
    /\ mdiag # None =>
          /\ MuxClass(mdiag) \in MuxClassesOf(mraw)
          /\ mraw = 0 => (mdiag \in {"zero_sensor", "zero_multiplexer"} /\ mdiag # "high")

\* The diagnosis read showed raw 0 in phase B with the other sensors alive.
C13_Witness ==
    /\ mpc = "closed"
    /\ mraw = 0
    /\ mphase = "B"
    /\ mdiag = "zero_sensor"

\* C16 (as claimed): a debug_solar run that read a raw value of exactly 0 or
\* exactly 65535 reports it by the branch "raw value invalid (0 or 65535)".
C16_InvalidBranchReached ==
    (spc = "done" /\ raw_so \in {0, 65535}) => sdiag = "invalid"

\* C19: a poller that is past ensure_pivot_table and ensure_pivot_columns
\* names in its INSERT only columns the pivot table has, each once, whatever
\* subset of its reads answered and whatever the other pollers have added
\* meanwhile; no INSERT is refused for its column list.
C19_InsertColumnsExist ==
    \A p \in Pollers :
        /\ pc[p] = "insert" =>
              LET cols == InsertCols(results[p], bit_expanded[p])
              IN /\ tableExists
                 /\ cols[1] = "timestamp"
                 /\ cols[Len(cols)] = "Volumeflow"
                 /\ {RegEntry(r).name : r \in DOMAIN results[p]} \subseteq Range(cols)
                 /\ DOMAIN bit_expanded[p] \subseteq Range(cols)
                 /\ Range(cols) \subseteq ColumnNames(columns)
                 /\ \A i, j \in DOMAIN cols : cols[i] = cols[j] => i = j
        /\ obs[p].stage # "insert_rejected"

\* One poller is about to insert what it read while the other poller, which
\* added columns in the same span, is still in its own cycle.
C19_Witness ==
    /\ active = Pollers
    /\ pc["p1"] = "insert"
    /\ obs["p2"].alters > 0
    /\ pc["p2"] \in {"columns", "insert", "inserted"}
    /\ DOMAIN results["p1"] # {}

\* C20 (as claimed): a poll cycle that has ended holds no open database
\* connection and no open Modbus client, whichever step failed.
C20_ConnectionsClosedAtEnd ==
    \A p \in Pollers : pc[p] = "done" => (~dbOpen[p] /\ ~clientOpen[p])

\* The write operations of the run on one register.
WritesTo(reg) == {i \in DOMAIN ops : ops[i].kind = "write" /\ ops[i].reg = reg}

\* The read operations of the run on one register.
ReadsOf(reg) == {i \in DOMAIN ops : ops[i].kind = "read" /\ ops[i].reg = reg}

\* Bit 3 of the status word the run read; no value when the read failed.
BrineBitRead == {ShiftAnd1(v, 3) : v \in status_val}

\* C14: a write_freq run writes 2056 = 1 and 2057 = 70 only after it read
\* bit 3 of register 2136 as 1; after reading it as 0 it writes 2056 = 0 and
\* never writes 2057; after a failed status read it writes neither register.
C14_HostControlOnlyWithPump ==
    /\ \A i \in WritesTo(2056) :
          /\ ops[i].value = {1} => BrineBitRead = {1}
          /\ ops[i].value = {0} => BrineBitRead = {0}
          /\ ops[i].value \in {{0}, {1}}
          /\ \E j \in ReadsOf(2136) : j < i /\ ops[j].ok
    /\ \A i \in WritesTo(2057) :
          /\ ops[i].value = {70}
          /\ BrineBitRead = {1}
          /\ \E j \in WritesTo(2056) : j < i /\ ops[j].value = {1}
    /\ Cardinality(WritesTo(2056)) <= 1
    /\ Cardinality(WritesTo(2057)) <= 1
    /\ (BrineBitRead = {0} /\ fpc \in {"errors", "verify", "closed"}) =>
          /\ \E i \in WritesTo(2056) : ops[i].value = {0}
          /\ WritesTo(2057) = {}
    /\ (BrineBitRead = {1} /\ fpc \in {"errors", "verify", "closed"}) =>
          /\ \E i \in WritesTo(2056) : ops[i].value = {1}
          /\ WritesTo(2057) # {}
    /\ (\E j \in ReadsOf(2136) : ~ops[j].ok) =>
          (WritesTo(2056) = {} /\ WritesTo(2057) = {})

\* A run read the status word with only bit 3 set, enabled host control and
\* set the frequency.
C14_Witness ==
    /\ fpc = "closed"
    /\ status_val = {8}
    /\ \E i \in WritesTo(2056) : ops[i].value = {1} /\ ops[i].ok
    /\ \E i \in WritesTo(2057) : ops[i].value = {70} /\ ops[i].ok

\* C15 (as claimed): a write_freq run that connected and has ended read the
\* error register, reached the verification, read back every register it
\* wrote and logged the Summary line, with Failed if any operation failed.
C15_RunAlwaysReachesSummary ==
    fpc = "closed" =>
        /\ ReadsOf(2137) # {}
        /\ Len(verified) = Len(written_registers)
        /\ \A i \in DOMAIN ops : ops[i].kind = "write" =>
              \E k \in DOMAIN verified : verified[k].reg = ops[i].reg
        /\ summary # "none"
        /\ (\E i \in DOMAIN ops : ~ops[i].ok) => summary = "Failed"

\* C17 (as claimed): every bus operation of a write_freq run after the first
\* is preceded by a WRITE_DELAY pause since the operation before it.
C17_PauseBetweenOperations ==
    \A i \in DOMAIN ops : i > 1 => ops[i].gap >= WRITE_DELAY

\* The value the run wrote to a register.
WrittenValue(reg) == UNION {ops[i].value : i \in WritesTo(reg)}

\* C18 (as claimed): a run that logs "Summary: Success" wrote every register
\* of its written set successfully and read each back holding the value
\* written; every register logged as verified read back the value written.
C18_SuccessMeansVerified ==
    /\ summary = "Success" =>
          \A k \in DOMAIN written_registers :
              /\ \E i \in WritesTo(written_registers[k]) : ops[i].ok
              /\ verified[k].reg = written_registers[k]
              /\ verified[k].val = WrittenValue(written_registers[k])
    /\ \A k \in DOMAIN verified :
          verified[k].val # {} => verified[k].val = WrittenValue(verified[k].reg)

====
